---- MODULE Spec2Model ----
(***************************************************************************)
(* Model of pkg/user/casbin/rbac.go: the per-identity lock table, the      *)
(* result cache (go-cache holding Go map references), the batch evaluator  *)
(* EnforceByEmailInBatch with its shard workers, InvalidateCache and       *)
(* InvalidateCompleteCache.                                                *)
(*                                                                         *)
(* Every call of the public surface is one element of Calls.  A call runs  *)
(* as a goroutine; one action is one step between two accesses of shared   *)
(* state (the lock table e.lock, a sync.Mutex, the go-cache, a Go map      *)
(* object).  Go maps are references: the heap of map[string]bool objects   *)
(* is `inner`, the heap of map[string]map[string]bool objects is `outer`,  *)
(* and an object is named by the call that allocated it.                   *)
(***************************************************************************)
EXTENDS Integers, Sequences, FiniteSets, TLC

\* ---------------------------------------------------------------- bounds
NumCalls == 2
MaxItems == 3
MaxBatchCfg == 2
MaxTotal == 10
MaxShards == 4
MaxKeyLen == 3
TtlTicks == 2

\* EnforcerBatchDefaultSize is declared in another file of the package.
EnforcerBatchDefaultSize == 1

Calls == 1..NumCalls
Nil == 0

Emails == {"al", "Al", "bo"}
ItemUniverse == <<"x", "y", "z", "w", "v">>
Items == {ItemUniverse[i] : i \in 1..MaxItems}
\* the item lists a caller passes: the prefixes of the universe
ItemLists == {[i \in 1..n |-> ItemUniverse[i]] : n \in 0..MaxItems}
Requests == {<<"app", "view">>, <<"app", "edit">>}

\* strings.ToLower on the identities of the model
ToLower(s) == IF s = "Al" THEN "al" ELSE s

\* casbin's Enforce under a fixed policy: (sub, res, act, item) -> bool
Policy(sub, res, act, item) ==
    \/ sub = "al" /\ act = "view" /\ item \in {"x", "z"}
    \/ sub = "al" /\ act = "edit" /\ item = "x"
    \/ sub = "bo" /\ act = "view" /\ item = "y"

\* enforceByEmail: rvals is never empty here; a panic of the engine is
\* recovered and gives false
enforceByEmail(sub, res, act, item) == Policy(sub, res, act, item)

\* a cache key that leaves the action out
getCacheKeyResource(resource, action) == resource

getCacheKey(resource, action) == resource \o "$$" \o action
getLockKey(emailId) == emailId

CacheKeys == {getCacheKey(r[1], r[2]) : r \in Requests}

EmptyMap == [k \in {} |-> FALSE]
EmptyOuter == [k \in {} |-> Nil]

\* strconv.Atoi on ENFORCER_MAX_BATCH_SIZE: an error, or the number
EnvValues == {[err |-> TRUE, val |-> 0]} \cup
             {[err |-> FALSE, val |-> v] : v \in (0 - 1)..MaxBatchCfg}

\* ------------------------------------------------------------ shard split
Min(a, b) == IF a < b THEN a ELSE b

startIndex(i, totalSize, batchSize) == (i * totalSize) \div batchSize

endIndex(i, totalSize, batchSize) ==
    Min(startIndex(i, totalSize, batchSize) + (totalSize \div batchSize), totalSize)

\* the shards of the dispatch loop, as <<startIndex, endIndex>> (0-based,
\* end exclusive), indexed by the loop variable
Shards(totalSize, batchSize) ==
    [i \in 0..(batchSize - 1) |->
        <<startIndex(i, totalSize, batchSize), endIndex(i, totalSize, batchSize)>>]

\* vals[startIndex:endIndex]
Slice(s, a, b) == [k \in 1..(b - a) |-> s[a + k]]

Range(s) == {s[k] : k \in DOMAIN s}

\* ----------------------------------------------------------------- state
VARIABLES
    cacheOn,    \* e.Cache != nil
    env,        \* strconv.Atoi(os.Getenv("ENFORCER_MAX_BATCH_SIZE"))
    lock,       \* e.lock: identity -> mutex (Nil: no entry)
    held,       \* the locked sync.Mutex objects
    cache,      \* go-cache: identity -> outer map object (Nil: no entry)
    ttl,        \* go-cache: identity -> ticks left before its entry expires
    idle,       \* identity -> ticks since its entry was last read or written
    outer,      \* heap of map[string]map[string]bool: object -> key -> inner
    inner,      \* heap of map[string]bool: object -> item -> decision
    c,          \* the calls: position, arguments and locals of each
    fatal,      \* the runtime has thrown (concurrent map access)
    ptotal, pbatch, pidx, pcover,  \* the shard loop run alone
    enf,        \* one call of Enforce: position, arguments, engine calls
    mk          \* one call of MatchKeyByPart: arguments and result

vars == <<cacheOn, env, lock, held, cache, ttl, idle, outer, inner, c, fatal,
          ptotal, pbatch, pidx, pcover, enf, mk>>
pvars == <<ptotal, pbatch, pidx, pcover, enf, mk>>
evars == <<cacheOn, env, lock, held, cache, ttl, idle, outer, inner, c, fatal>>

IdleCall ==
    [pc |-> "idle", op |-> "none", emailId |-> "", resource |-> "", action |-> "",
     items |-> <<>>, vals |-> <<>>, mutex |-> Nil, result |-> Nil,
     emailResult |-> Nil, batchSize |-> 0, wg |-> 0, workers |-> {},
     dispatched |-> 0, evaluated |-> {}, hit |-> FALSE, panicking |-> FALSE,
     unlocked |-> FALSE, seen |-> EmptyMap,
     ret |-> "none", retMap |-> EmptyMap, after |-> {}, removed |-> FALSE,
     left |-> 0, stale |-> {}]

\* no call of Enforce / of MatchKeyByPart under way
EnfOff == [pc |-> "off", args |-> <<>>, rvals |-> <<>>, ret |-> FALSE, engine |-> <<>>]
MkOff == [pc |-> "off", key1 |-> <<>>, key2 |-> <<>>, ret |-> FALSE]

Init ==
    /\ cacheOn \in BOOLEAN
    /\ env \in EnvValues
    /\ lock = [e \in Emails |-> Nil]
    /\ held = {}
    /\ cache = [e \in Emails |-> Nil]
    /\ ttl = [e \in Emails |-> 0]
    /\ idle = [e \in Emails |-> 0]
    /\ outer = [o \in Calls |-> EmptyOuter]
    /\ inner = [o \in Calls |-> EmptyMap]
    /\ c = [p \in Calls |-> IdleCall]
    /\ fatal = FALSE
    /\ ptotal = 0 /\ pbatch = 0 /\ pidx = 0 /\ pcover = <<>>
    /\ enf = EnfOff /\ mk = MkOff

\* ------------------------------------------------------------- helpers
Active(p) == c[p].pc \notin {"idle", "done"}

\* calls are numbered in the order they are issued
MayStart(p) ==
    /\ ~fatal
    /\ c[p].pc = "idle"
    /\ \A q \in Calls : q < p => c[q].pc # "idle"

Returned == {q \in Calls : c[q].pc = "done"}

\* a map assignment m[k] = v for every k of g
Merge(m, g) ==
    [k \in (DOMAIN m) \cup (DOMAIN g) |-> IF k \in DOMAIN g THEN g[k] ELSE m[k]]

\* go-cache Flush: ghost bookkeeping of the decisions evaluated before it, per
\* map[string]bool object (the object made by call q carries the id q)
MarkStale(cc) == [q \in Calls |-> [cc[q] EXCEPT !.stale = DOMAIN inner[q]]]

\* an expiry that a Set leaves as it finds it
SetExpiryKeep(t, emailId) == t

\* e.Cache.Set(emailId, ..., cache.DefaultExpiration): the entry is due a full
\* time-to-live from now
SetExpiry(t, emailId) == [t EXCEPT ![emailId] = TtlTicks]

\* go-cache Delete / Flush / a fresh Set: ghost bookkeeping of the returned
\* batch calls whose identity lost its entry since they returned
MarkRemoved(cc, es) ==
    [q \in Calls |->
        IF cc[q].pc = "done" /\ cc[q].op = "batch" /\ cc[q].emailId \in es
        THEN [cc[q] EXCEPT !.removed = TRUE] ELSE cc[q]]

\* ------------------------------------------------- getEnforcerCacheLock
\* e.lock[getLockKey(emailId)] lookup
GetLockLookup(p) ==
    /\ ~fatal
    /\ c[p].pc = "getLock"
    /\ LET m == lock[getLockKey(c[p].emailId)] IN
        IF m # Nil
        THEN c' = [c EXCEPT ![p].mutex = m, ![p].pc = "lock"]
        ELSE c' = [c EXCEPT ![p].pc = "newLock"]
    /\ UNCHANGED <<cacheOn, env, lock, held, cache, ttl, idle, outer, inner, fatal, pvars>>

\* enforcerCacheMutex = &sync.Mutex{}; e.lock[key] = enforcerCacheMutex
GetLockInsert(p) ==
    /\ ~fatal
    /\ c[p].pc = "newLock"
    /\ lock' = [lock EXCEPT ![getLockKey(c[p].emailId)] = p]
    /\ c' = [c EXCEPT ![p].mutex = p, ![p].pc = "lock"]
    /\ UNCHANGED <<cacheOn, env, held, cache, ttl, idle, outer, inner, fatal, pvars>>

\* sync.Mutex.Lock: blocks while the mutex is locked
MutexFree(m) == m \notin held

Lock(p) ==
    /\ ~fatal
    /\ c[p].pc = "lock"
    /\ MutexFree(c[p].mutex)
    /\ held' = held \cup {c[p].mutex}
    /\ c' = [c EXCEPT ![p].pc = IF c[p].op = "batch" THEN "cacheGet" ELSE "cacheDel"]
    /\ UNCHANGED <<cacheOn, env, lock, cache, ttl, idle, outer, inner, fatal, pvars>>

\* ------------------------------------------------------- clearCacheLock
\* cacheMutex.Unlock()
Unlock(p) ==
    /\ ~fatal
    /\ c[p].pc = "unlock"
    /\ held' = held \ {c[p].mutex}
    /\ c' = [c EXCEPT ![p].pc = "delete", ![p].unlocked = TRUE]
    /\ UNCHANGED <<cacheOn, env, lock, cache, ttl, idle, outer, inner, fatal, pvars>>

\* delete(e.lock, getLockKey(emailId)); then the call returns
\* a clearCacheLock that leaves the table as it is
RemoveHandleKeep(lk, lockKey) == lk

\* delete(e.lock, lockKey)
RemoveHandle(lk, lockKey) == [lk EXCEPT ![lockKey] = Nil]

DeleteLock(p) ==
    /\ ~fatal
    /\ c[p].pc = "delete"
    /\ lock' = RemoveHandle(lock, getLockKey(c[p].emailId))
    /\ c' = [c EXCEPT ![p].pc = "done",
                       ![p].retMap = IF c[p].ret = "map" THEN inner[c[p].result] ELSE EmptyMap,
                       ![p].mutex = Nil, ![p].emailResult = Nil]
    /\ UNCHANGED <<cacheOn, env, held, cache, ttl, idle, outer, inner, fatal, pvars>>

\* ------------------------------------------------ EnforceByEmailInBatch
\* the call is issued: batchSize from the environment, then
\* getEnforcerCacheLock
StartBatchWith(p, es, rs, ls) ==
    /\ MayStart(p)
    /\ \E e \in es, r \in rs, l \in ls :
        c' = [c EXCEPT ![p] = [IdleCall EXCEPT
                 !.pc = "getLock", !.op = "batch", !.emailId = e,
                 !.resource = r[1], !.action = r[2], !.items = l, !.vals = l,
                 !.batchSize = IF env.err THEN EnforcerBatchDefaultSize ELSE env.val,
                 !.after = Returned]]
    /\ UNCHANGED <<cacheOn, env, lock, held, cache, ttl, idle, outer, inner, fatal, pvars>>

StartBatch(p) == StartBatchWith(p, Emails, Requests, ItemLists)

\* result = make(map[string]bool)
NewResult(p, cc) == [cc EXCEPT ![p].result = p, ![p].hit = FALSE, ![p].pc = "dispatch"]

\* getCacheData, first half: e.Cache == nil, or e.Cache.Get(emailId)
CacheGet(p) ==
    /\ ~fatal
    /\ c[p].pc = "cacheGet"
    /\ IF cacheOn /\ cache[c[p].emailId] # Nil
       THEN /\ c' = [c EXCEPT ![p].emailResult = cache[c[p].emailId],
                               ![p].left = ttl[c[p].emailId], ![p].pc = "cacheTouch"]
            /\ inner' = inner
       ELSE /\ c' = NewResult(p, c)
            /\ inner' = [inner EXCEPT ![p] = EmptyMap]
    /\ UNCHANGED <<cacheOn, env, lock, held, cache, ttl, idle, outer, fatal, pvars>>

\* getCacheData, second half: e.Cache.Set(emailId, emailResult, DefaultExpiration)
\* and emailResultMap[getCacheKey(resource, action)]
CacheTouch(p) ==
    /\ ~fatal
    /\ c[p].pc = "cacheTouch"
    /\ cache' = [cache EXCEPT ![c[p].emailId] = c[p].emailResult]
    /\ ttl' = SetExpiry(ttl, c[p].emailId)
    /\ idle' = [idle EXCEPT ![c[p].emailId] = 0]
    /\ LET m == outer[c[p].emailResult]
           k == getCacheKey(c[p].resource, c[p].action) IN
        IF k \in DOMAIN m
        THEN /\ c' = [c EXCEPT ![p].result = m[k], ![p].hit = TRUE,
                               ![p].seen = inner[m[k]],
                               ![p].emailResult = Nil, ![p].pc = "dispatch"]
             /\ inner' = inner
        ELSE /\ c' = [NewResult(p, c) EXCEPT ![p].emailResult = Nil]
             /\ inner' = [inner EXCEPT ![p] = EmptyMap]
    /\ UNCHANGED <<cacheOn, env, lock, held, outer, fatal, pvars>>

\* the items of vals not found in result, in order
RECURSIVE NewVals(_, _)
NewVals(vals, found) ==
    IF vals = <<>> THEN <<>>
    ELSE IF Head(vals) \in found THEN NewVals(Tail(vals), found)
         ELSE <<Head(vals)>> \o NewVals(Tail(vals), found)

\* lines 152-182: subtract the cached items, clamp batchSize, wg.Add and
\* start one goroutine per shard.  wg.Add of a negative number panics.
Dispatch(p) ==
    /\ ~fatal
    /\ c[p].pc = "dispatch"
    /\ LET vals == IF c[p].hit THEN NewVals(c[p].vals, DOMAIN inner[c[p].result])
                   ELSE c[p].vals
           totalSize == Len(vals)
           batchSize == IF c[p].batchSize > totalSize THEN totalSize ELSE c[p].batchSize
       IN IF batchSize < 0
          THEN c' = [c EXCEPT ![p].vals = vals, ![p].batchSize = batchSize,
                              ![p].panicking = TRUE, ![p].ret = "panic",
                              ![p].pc = "unlock"]
          ELSE c' = [c EXCEPT ![p].vals = vals, ![p].batchSize = batchSize,
                              ![p].wg = batchSize, ![p].dispatched = batchSize,
                              ![p].workers = {Shards(totalSize, batchSize)[i] :
                                                i \in 0..(batchSize - 1)},
                              ![p].pc = "wait"]
    /\ UNCHANGED <<cacheOn, env, lock, held, cache, ttl, idle, outer, inner, fatal, pvars>>

\* EnforceByEmailInBatchSync on vals[startIndex:endIndex]: evaluate every
\* item, merge into result under the batch mutex, wg.Done
batchResult(p, sh) ==
    LET part == Slice(c[p].vals, sh[1], sh[2]) IN
    [item \in Range(part) |->
        enforceByEmail(ToLower(c[p].emailId), c[p].resource, c[p].action, item)]

EnforceByEmailInBatchSync(p, sh) ==
    /\ ~fatal
    /\ sh \in c[p].workers
    /\ inner' = [inner EXCEPT ![c[p].result] = Merge(@, batchResult(p, sh))]
    /\ c' = [c EXCEPT ![p].workers = @ \ {sh}, ![p].wg = @ - 1,
                       ![p].evaluated = @ \cup DOMAIN batchResult(p, sh),
                       ![c[p].result].stale = @ \ DOMAIN batchResult(p, sh)]
    /\ UNCHANGED <<cacheOn, env, lock, held, cache, ttl, idle, outer, fatal, pvars>>

\* a Wait that does not wait
WaitDoneNoJoin(p) == TRUE

\* wg.Wait returns when the counter is zero
WaitDone(p) == c[p].wg = 0

Wait(p) ==
    /\ ~fatal
    /\ c[p].pc = "wait"
    /\ WaitDone(p)
    /\ c' = [c EXCEPT ![p].pc = "storeGet"]
    /\ UNCHANGED <<cacheOn, env, lock, held, cache, ttl, idle, outer, inner, fatal, pvars>>

\* storeCacheData, first half: e.Cache == nil, or e.Cache.Get(emailId) and
\* make(map[string]map[string]bool) when not found
StoreGet(p) ==
    /\ ~fatal
    /\ c[p].pc = "storeGet"
    /\ IF ~cacheOn
       THEN /\ c' = [c EXCEPT ![p].ret = "map", ![p].pc = "unlock"]
            /\ outer' = outer
       ELSE IF cache[c[p].emailId] # Nil
       THEN /\ c' = [c EXCEPT ![p].emailResult = cache[c[p].emailId], ![p].pc = "storeSet"]
            /\ outer' = outer
       ELSE /\ c' = [c EXCEPT ![p].emailResult = p, ![p].pc = "storeSet"]
            /\ outer' = [outer EXCEPT ![p] = EmptyOuter]
    /\ UNCHANGED <<cacheOn, env, lock, held, cache, ttl, idle, inner, fatal, pvars>>

\* storeCacheData, second half: emailResult[key] = result;
\* e.Cache.Set(emailId, emailResult, DefaultExpiration)
StoreSet(p) ==
    /\ ~fatal
    /\ c[p].pc = "storeSet"
    /\ LET o == c[p].emailResult
           k == getCacheKey(c[p].resource, c[p].action) IN
        /\ outer' = [outer EXCEPT ![o] =
                        [x \in (DOMAIN @) \cup {k} |-> IF x = k THEN c[p].result ELSE @[x]]]
        /\ cache' = [cache EXCEPT ![c[p].emailId] = o]
        /\ ttl' = SetExpiry(ttl, c[p].emailId)
        /\ idle' = [idle EXCEPT ![c[p].emailId] = 0]
    /\ c' = [c EXCEPT ![p].ret = "map", ![p].emailResult = Nil, ![p].pc = "unlock"]
    /\ UNCHANGED <<cacheOn, env, lock, held, inner, fatal, pvars>>

\* ------------------------------------------------------ InvalidateCache
StartInvalidateWith(p, es) ==
    /\ MayStart(p)
    /\ \E e \in es :
        c' = [c EXCEPT ![p] = [IdleCall EXCEPT
                 !.pc = "getLock", !.op = "inv", !.emailId = e, !.after = Returned]]
    /\ UNCHANGED <<cacheOn, env, lock, held, cache, ttl, idle, outer, inner, fatal, pvars>>

StartInvalidate(p) == StartInvalidateWith(p, Emails)

\* a Delete that drops every entry, as Flush does
DeleteEntryAll(ch, emailId) == [e \in Emails |-> Nil]

\* e.Cache.Delete(emailId)
DeleteEntry(ch, emailId) == [ch EXCEPT ![emailId] = Nil]

\* if e.Cache != nil { e.Cache.Delete(emailId); return true }; return false
CacheDelete(p) ==
    /\ ~fatal
    /\ c[p].pc = "cacheDel"
    /\ IF cacheOn
       THEN /\ cache' = DeleteEntry(cache, c[p].emailId)
            /\ ttl' = [ttl EXCEPT ![c[p].emailId] = 0]
            /\ idle' = [idle EXCEPT ![c[p].emailId] = 0]
            /\ c' = [MarkRemoved(c, {c[p].emailId}) EXCEPT ![p].ret = "true", ![p].pc = "unlock"]
       ELSE /\ UNCHANGED <<cache, ttl, idle>>
            /\ c' = [c EXCEPT ![p].ret = "false", ![p].pc = "unlock"]
    /\ UNCHANGED <<cacheOn, env, lock, held, outer, inner, fatal, pvars>>

\* ---------------------------------------------- InvalidateCompleteCache
\* if e.Cache != nil { e.Cache.Flush() }
InvalidateCompleteCache(p) ==
    /\ MayStart(p)
    /\ cache' = [e \in Emails |-> Nil]
    /\ ttl' = [e \in Emails |-> 0]
    /\ idle' = [e \in Emails |-> 0]
    /\ c' = [MarkStale(MarkRemoved(c, Emails)) EXCEPT ![p] = [IdleCall EXCEPT
                 !.pc = "done", !.op = "flush", !.ret = "void", !.after = Returned]]
    /\ UNCHANGED <<cacheOn, env, lock, held, outer, inner, fatal, pvars>>

\* ------------------------------------------- unsynchronised Go map access
\* e.lock is a plain map read and written with no lock around it
LockTableRead(p) == c[p].pc = "getLock"
LockTableWrite(p) == c[p].pc \in {"newLock", "delete"}
\* writers of a map[string]bool object: the workers of a call
ResultWriter(p) == c[p].workers # {}
ResultReader(p) == c[p].pc = "dispatch" /\ c[p].hit

MapRace(p, q) ==
    \/ LockTableWrite(p) /\ (LockTableRead(q) \/ LockTableWrite(q))
    \/ /\ ResultWriter(p)
       /\ ResultWriter(q) \/ ResultReader(q)
       /\ c[p].result = c[q].result
    \/ /\ c[p].pc = "storeSet"
       /\ c[q].pc \in {"storeSet", "cacheTouch"}
       /\ c[p].emailResult = c[q].emailResult

\* the runtime detects the concurrent map access and throws: the process dies
MapFault ==
    /\ ~fatal
    /\ \E p, q \in Calls : p # q /\ MapRace(p, q)
    /\ fatal' = TRUE
    /\ UNCHANGED <<cacheOn, env, lock, held, cache, ttl, idle, outer, inner, c, pvars>>

\* ------------------------------------------------------- specification
\* the steps of a call that has been issued
Run(p) ==
    \/ GetLockLookup(p)
    \/ GetLockInsert(p)
    \/ Lock(p)
    \/ CacheGet(p)
    \/ CacheTouch(p)
    \/ Dispatch(p)
    \/ \E sh \in c[p].workers : EnforceByEmailInBatchSync(p, sh)
    \/ Wait(p)
    \/ StoreGet(p)
    \/ StoreSet(p)
    \/ CacheDelete(p)
    \/ Unlock(p)
    \/ DeleteLock(p)

Step(p) ==
    \/ StartBatch(p)
    \/ StartInvalidate(p)
    \/ InvalidateCompleteCache(p)
    \/ Run(p)

Next == (\E p \in Calls : Step(p)) \/ MapFault

Spec == Init /\ [][Next]_vars

\* The same program under a narrower load: every caller asks for the whole
\* item list of one request, for one of two identities, with the largest
\* configured shard count.
HotEmails == {"al", "bo"}
HotRequests == {<<"app", "view">>}
HotLists == {[i \in 1..MaxItems |-> ItemUniverse[i]]}

HotInit ==
    /\ Init
    /\ env = [err |-> FALSE, val |-> MaxBatchCfg]

HotStep(p) ==
    \/ StartBatchWith(p, HotEmails, HotRequests, HotLists)
    \/ StartInvalidateWith(p, HotEmails)
    \/ InvalidateCompleteCache(p)
    \/ Run(p)

HotNext == (\E p \in Calls : HotStep(p)) \/ MapFault

HotSpec == HotInit /\ [][HotNext]_vars

\* The program with the clock running: one tick of time passes between any
\* two steps; an entry whose time-to-live has run out is gone (Get no longer
\* finds it).
Lapses(e) == cache[e] # Nil /\ ttl[e] <= 1

Tick ==
    /\ ~fatal
    /\ cacheOn
    /\ \E e \in Emails : cache[e] # Nil
    /\ cache' = [e \in Emails |-> IF Lapses(e) THEN Nil ELSE cache[e]]
    /\ ttl' = [e \in Emails |-> IF cache[e] = Nil \/ Lapses(e) THEN 0 ELSE ttl[e] - 1]
    /\ idle' = [e \in Emails |-> IF cache[e] = Nil \/ Lapses(e) THEN 0 ELSE idle[e] + 1]
    /\ c' = MarkRemoved(c, {e \in Emails : Lapses(e)})
    /\ UNCHANGED <<cacheOn, env, lock, held, outer, inner, fatal, pvars>>

\* Callers ask for one item of one request for one identity, with the cache
\* on and no shard count configured.
TtlEmails == {"al"}
TtlLists == {<<ItemUniverse[1]>>}

TtlInit ==
    /\ Init
    /\ cacheOn
    /\ env = [err |-> TRUE, val |-> 0]

TtlStep(p) ==
    \/ StartBatchWith(p, TtlEmails, HotRequests, TtlLists)
    \/ StartInvalidateWith(p, TtlEmails)
    \/ InvalidateCompleteCache(p)
    \/ Run(p)

TtlNext == (\E p \in Calls : TtlStep(p)) \/ MapFault \/ Tick

TtlSpec == TtlInit /\ [][TtlNext]_vars

\* The program under requests whose resource and action contain the "$$" of
\* the cache key: one identity, the cache on, no shard count configured.
KeyEmails == {"al"}
KeyRequests == {<<"app", "view">>, <<"app$$", "view">>, <<"app", "$$view">>}
KeyLists == {[i \in 1..n |-> ItemUniverse[i]] : n \in 1..2}

KeyInit ==
    /\ Init
    /\ cacheOn
    /\ env = [err |-> TRUE, val |-> 0]

KeyStep(p) ==
    \/ StartBatchWith(p, KeyEmails, KeyRequests, KeyLists)
    \/ StartInvalidateWith(p, KeyEmails)
    \/ InvalidateCompleteCache(p)
    \/ Run(p)

KeyNext == (\E p \in Calls : KeyStep(p)) \/ MapFault

KeySpec == KeyInit /\ [][KeyNext]_vars

\* ------------------------------------------------- the shard loop alone
\* lines 168-182 for every remaining-item count and every configured maximum
ShardInit ==
    /\ cacheOn = FALSE
    /\ env = [err |-> TRUE, val |-> 0]
    /\ lock = [e \in Emails |-> Nil]
    /\ held = {}
    /\ cache = [e \in Emails |-> Nil]
    /\ ttl = [e \in Emails |-> 0]
    /\ idle = [e \in Emails |-> 0]
    /\ outer = [o \in Calls |-> EmptyOuter]
    /\ inner = [o \in Calls |-> EmptyMap]
    /\ c = [p \in Calls |-> IdleCall]
    /\ fatal = FALSE
    /\ ptotal \in 0..MaxTotal
    /\ \E maxBatch \in 1..MaxShards : pbatch = Min(maxBatch, ptotal)
    /\ pidx = 0
    /\ pcover = <<>>
    /\ enf = EnfOff /\ mk = MkOff

\* one iteration of the loop: the indices handed to worker pidx
ShardStep ==
    /\ pidx < pbatch
    /\ LET sh == Shards(ptotal, pbatch)[pidx] IN
        pcover' = pcover \o [k \in 1..(sh[2] - sh[1]) |-> sh[1] + k - 1]
    /\ pidx' = pidx + 1
    /\ UNCHANGED <<ptotal, pbatch, enf, mk, evars>>

ShardSpec == ShardInit /\ [][ShardStep]_vars

\* ------------------------------------------------------------ Enforce
\* a raw token as the session layer sees it: whether VerifyToken accepts it,
\* whether jwt.MapClaims can read its claims, and its email and sub fields
TokEmails == Emails \cup {""}
TokSubs == {"admin", "admin:login", "dev"}
Tokens == [verifies : BOOLEAN, claimsOk : BOOLEAN, email : TokEmails, sub : TokSubs]

\* the argument lists of Enforce: none, or (token, resource, action, item)
EnforceArgs ==
    {<<>>} \cup {<<t, r[1], r[2], i>> : t \in Tokens, r \in Requests, i \in Items}

\* a VerifyToken that accepts every token
VerifyTokenErrNever(tok) == FALSE

\* e.SessionManager.VerifyToken(rvals[0].(string)) returns an error
VerifyTokenErr(tok) == ~tok.verifies

\* jwt.MapClaims(claims) returns an error
MapClaimsErr(tok) == ~tok.claimsOk

\* lines 284-289: the email claim, "admin" for the admin logins, lower-cased
ResolveEmail(tok) ==
    LET email == IF tok.email = "" /\ tok.sub \in {"admin", "admin:login"}
                 THEN "admin" ELSE tok.email
    IN ToLower(email)

\* if len(rvals) == 0 { return false }
EnforceArity ==
    /\ enf.pc = "start"
    /\ enf' = IF Len(enf.rvals) = 0
              THEN [enf EXCEPT !.ret = FALSE, !.pc = "done"]
              ELSE [enf EXCEPT !.pc = "verify"]
    /\ UNCHANGED <<evars, ptotal, pbatch, pidx, pcover, mk>>

\* claims, err := VerifyToken(...); if err != nil { return false }
EnforceVerify ==
    /\ enf.pc = "verify"
    /\ enf' = IF VerifyTokenErr(enf.rvals[1])
              THEN [enf EXCEPT !.ret = FALSE, !.pc = "done"]
              ELSE [enf EXCEPT !.pc = "claims"]
    /\ UNCHANGED <<evars, ptotal, pbatch, pidx, pcover, mk>>

\* mapClaims, err := jwt.MapClaims(claims); if err != nil { return false };
\* rvals[0] = strings.ToLower(email)
EnforceClaims ==
    /\ enf.pc = "claims"
    /\ enf' = IF MapClaimsErr(enf.rvals[1])
              THEN [enf EXCEPT !.ret = FALSE, !.pc = "done"]
              ELSE [enf EXCEPT !.rvals[1] = ResolveEmail(@), !.pc = "engine"]
    /\ UNCHANGED <<evars, ptotal, pbatch, pidx, pcover, mk>>

\* enforcedStatus := enf.Enforce(rvals...); return enforcedStatus
EnforceEngine ==
    /\ enf.pc = "engine"
    /\ enf' = [enf EXCEPT
                 !.engine = Append(@, enf.rvals),
                 !.ret = Policy(enf.rvals[1], enf.rvals[2], enf.rvals[3], enf.rvals[4]),
                 !.pc = "done"]
    /\ UNCHANGED <<evars, ptotal, pbatch, pidx, pcover, mk>>

EnforceInit ==
    /\ cacheOn = FALSE
    /\ env = [err |-> TRUE, val |-> 0]
    /\ lock = [e \in Emails |-> Nil]
    /\ held = {}
    /\ cache = [e \in Emails |-> Nil]
    /\ ttl = [e \in Emails |-> 0]
    /\ idle = [e \in Emails |-> 0]
    /\ outer = [o \in Calls |-> EmptyOuter]
    /\ inner = [o \in Calls |-> EmptyMap]
    /\ c = [p \in Calls |-> IdleCall]
    /\ fatal = FALSE
    /\ ptotal = 0 /\ pbatch = 0 /\ pidx = 0 /\ pcover = <<>>
    /\ mk = MkOff
    /\ \E a \in EnforceArgs : enf = [EnfOff EXCEPT !.pc = "start", !.args = a, !.rvals = a]

EnforceNext == EnforceArity \/ EnforceVerify \/ EnforceClaims \/ EnforceEngine

EnforceSpec == EnforceInit /\ [][EnforceNext]_vars

\* ----------------------------------------------------- MatchKeyByPart
\* a Go string is the sequence of its bytes
KeyAlphabet == {"/", "*", "a", "b"}
Keys == UNION {[1..n -> KeyAlphabet] : n \in 0..MaxKeyLen}

\* strings.Split(s, "/")
RECURSIVE SplitAcc(_, _, _)
SplitAcc(s, cur, acc) ==
    IF s = <<>> THEN Append(acc, cur)
    ELSE IF Head(s) = "/" THEN SplitAcc(Tail(s), <<>>, Append(acc, cur))
    ELSE SplitAcc(Tail(s), Append(cur, Head(s)), acc)

Split(s) == SplitAcc(s, <<>>, <<>>)

\* the index of the last "*" of s, -1 without one
IndexLast(s) ==
    IF \E i \in 1..Len(s) : s[i] = "*"
    THEN (CHOOSE i \in 1..Len(s) : s[i] = "*" /\ \A k \in (i+1)..Len(s) : s[k] # "*") - 1
    ELSE -1

\* strings.Index(s, "*"): the index (from 0) of the first "*" of s, -1 without one
Index(s) ==
    IF \E i \in 1..Len(s) : s[i] = "*"
    THEN (CHOOSE i \in 1..Len(s) : s[i] = "*" /\ \A k \in 1..(i-1) : s[k] # "*") - 1
    ELSE -1

\* s[:j]
Prefix(s, j) == SubSeq(s, 1, j)

\* a pattern test that never takes the shortcut
IsGlobalNever(key2) == FALSE

\* key2 == "*"
IsGlobal(key2) == key2 = <<"*">>

\* one pass of the loop body for the segments key1Val and key2Val: TRUE to go
\* on with the next segment, FALSE for return false
SegmentOk(key1Val, key2Val) ==
    IF key2Val = <<>> \/ key1Val = <<>> THEN FALSE
    ELSE LET j == Index(key2Val)
         IN IF j = -1 THEN key1Val = key2Val
            ELSE IF Len(key1Val) > j THEN Prefix(key1Val, j) = Prefix(key2Val, j)
            ELSE key1Val = Prefix(key2Val, j)

\* for i, key2Val := range key2Vals { ... }; return true
RECURSIVE MatchFrom(_, _, _)
MatchFrom(key1Vals, key2Vals, i) ==
    IF i > Len(key2Vals) THEN TRUE
    ELSE IF ~SegmentOk(key1Vals[i], key2Vals[i]) THEN FALSE
    ELSE MatchFrom(key1Vals, key2Vals, i + 1)

MatchKeyByPart(key1, key2) ==
    IF IsGlobal(key2) THEN TRUE
    ELSE LET key1Vals == Split(key1)
             key2Vals == Split(key2)
         IN IF Len(key1Vals) # Len(key2Vals) \/ Len(key1Vals) = 0 THEN FALSE
            ELSE MatchFrom(key1Vals, key2Vals, 1)

\* one call of MatchKeyByPart(key1, key2)
MatchCall ==
    /\ mk.pc = "start"
    /\ mk' = [mk EXCEPT !.ret = MatchKeyByPart(mk.key1, mk.key2), !.pc = "done"]
    /\ UNCHANGED <<evars, ptotal, pbatch, pidx, pcover, enf>>

MatchInit ==
    /\ cacheOn = FALSE
    /\ env = [err |-> TRUE, val |-> 0]
    /\ lock = [e \in Emails |-> Nil]
    /\ held = {}
    /\ cache = [e \in Emails |-> Nil]
    /\ ttl = [e \in Emails |-> 0]
    /\ idle = [e \in Emails |-> 0]
    /\ outer = [o \in Calls |-> EmptyOuter]
    /\ inner = [o \in Calls |-> EmptyMap]
    /\ c = [p \in Calls |-> IdleCall]
    /\ fatal = FALSE
    /\ ptotal = 0 /\ pbatch = 0 /\ pidx = 0 /\ pcover = <<>>
    /\ enf = EnfOff
    /\ \E k1 \in Keys, k2 \in Keys : mk = [MkOff EXCEPT !.pc = "start", !.key1 = k1, !.key2 = k2]

MatchNext == MatchCall

MatchSpec == MatchInit /\ [][MatchNext]_vars

\* ---------------------------------------------------------------- claims
IsBatch(p) == c[p].op = "batch"
IsInv(p) == c[p].op = "inv"
SameArgs(p, q) ==
    /\ c[p].emailId = c[q].emailId
    /\ c[p].resource = c[q].resource
    /\ c[p].action = c[q].action
    /\ c[p].items = c[q].items
\* the configured maximum shard count is a number >= 1
ValidBatchCfg == ~env.err /\ env.val >= 1
\* between Lock returning and Unlock
InCritical(p) ==
    c[p].pc \in {"cacheGet", "cacheTouch", "dispatch", "wait", "storeGet",
                 "storeSet", "cacheDel", "unlock"}
\* between getCacheData and the end of storeCacheData
InCachePass(p) ==
    IsBatch(p) /\ c[p].pc \in {"cacheTouch", "dispatch", "wait", "storeGet", "storeSet"}
PastWait(p) == c[p].pc \in {"storeGet", "storeSet", "unlock", "delete", "done"}
\* no call other than p and q for the identity of p has been issued
OnlyCalls(p, q) ==
    \A r \in Calls \ {p, q} :
        c[r].pc = "idle" \/ (c[r].op # "flush" /\ c[r].emailId # c[p].emailId)
\* what the cache holds for an identity, by value
Entry(e) ==
    IF cache[e] = Nil THEN <<FALSE, [k \in {} |-> EmptyMap]>>
    ELSE <<TRUE, [k \in DOMAIN outer[cache[e]] |-> inner[outer[cache[e]][k]]]>>

\* C1: with a configured maximum shard count >= 1, the mapping a batch call
\* returns holds a decision for every item it was asked about.
C1_EveryItemDecided ==
    \A p \in Calls :
        (IsBatch(p) /\ c[p].pc = "done" /\ c[p].ret = "map" /\ ValidBatchCfg)
            => Range(c[p].items) \subseteq DOMAIN c[p].retMap

\* C2: at most one call per identity is inside its critical section (between
\* locking the identity's handle and unlocking it in clearCacheLock).
C2_MutualExclusion ==
    \A p, q \in Calls :
        (p # q /\ getLockKey(c[p].emailId) = getLockKey(c[q].emailId))
            => ~(InCritical(p) /\ InCritical(q))

\* C3: with the cache on and nothing removed in between, a batch call issued
\* after an identical one returned dispatches no worker and returns the same
\* mapping.
C3_RepeatCallHitsCache ==
    \A p, q \in Calls :
        (/\ cacheOn /\ IsBatch(p) /\ IsBatch(q) /\ p \in c[q].after
         /\ SameArgs(p, q) /\ OnlyCalls(p, q)
         /\ c[p].ret = "map" /\ ~c[p].removed
         /\ c[q].pc = "done" /\ c[q].ret = "map")
            => (c[q].dispatched = 0 /\ c[q].retMap = c[p].retMap)

\* C4: the first batch call for an identity issued after InvalidateCache for
\* it returned finds nothing cached and its workers evaluate every item asked.
C4_NextBatchAfterInvalidate ==
    \A p, q \in Calls :
        (/\ IsBatch(p) /\ IsInv(q) /\ q \in c[p].after
         /\ c[p].emailId = c[q].emailId /\ OnlyCalls(p, q)
         /\ cacheOn /\ c[q].ret = "true" /\ ValidBatchCfg)
            => /\ PastWait(p) \/ c[p].pc \in {"dispatch", "wait"} => ~c[p].hit
               /\ (c[p].pc = "done" /\ c[p].ret = "map")
                    => c[p].evaluated = Range(c[p].items)

\* the step is one of call p (or of one of its workers)
Moved(p) == c'[p].pc # c[p].pc \/ c'[p].workers # c[p].workers

\* C5: a step of a batch call or of InvalidateCache leaves the cache entry
\* (by value) and the lock handle of every other identity as they were.
C5_OtherIdentitiesUntouched ==
    [][\A p \in Calls :
          ((IsBatch(p) \/ IsInv(p)) /\ Moved(p))
              => \A j \in Emails \ {c[p].emailId} :
                    Entry(j)' = Entry(j) /\ lock'[j] = lock[j]]_vars

\* C5 witness: InvalidateCache has deleted the entry of one identity while a
\* batch call of another identity, just stored, still holds its handle.
C5_Witness ==
    \E p, q \in Calls :
        /\ IsInv(p) /\ c[p].pc = "unlock" /\ c[p].ret = "true"
        /\ IsBatch(q) /\ c[q].pc = "unlock" /\ c[q].emailId # c[p].emailId
        /\ lock[c[q].emailId] # Nil
        /\ Entry(c[q].emailId)[1]
        /\ \E k \in DOMAIN Entry(c[q].emailId)[2] : Entry(c[q].emailId)[2][k] # EmptyMap

\* C6: the cache passes (getCacheData .. storeCacheData) of the batch calls of
\* one identity never overlap, and once every call has returned with nothing
\* removed, the entry holds what each of them wrote through.
C6_CachePassesSerialized ==
    /\ \A p, q \in Calls :
          (cacheOn /\ p # q /\ c[p].emailId = c[q].emailId)
              => ~(InCachePass(p) /\ InCachePass(q))
    /\ (cacheOn /\ \A r \in Calls : c[r].pc = "done" /\ IsBatch(r) /\ c[r].ret = "map")
          => \A r \in Calls :
                /\ Entry(c[r].emailId)[1]
                /\ getCacheKey(c[r].resource, c[r].action) \in DOMAIN Entry(c[r].emailId)[2]
                /\ c[r].evaluated \subseteq
                     DOMAIN Entry(c[r].emailId)[2][getCacheKey(c[r].resource, c[r].action)]

\* C7: when the loop is over, the shards have covered every index
\* 0..total-1 exactly once, their sizes differ by at most one and the last
\* one ends at total.
C7_ShardsPartition ==
    (pbatch >= 1 /\ pidx = pbatch) =>
        /\ pcover = [k \in 1..ptotal |-> k - 1]
        /\ \A i, j \in 0..(pbatch - 1) :
              LET a == Shards(ptotal, pbatch)[i]
                  b == Shards(ptotal, pbatch)[j]
              IN (a[2] - a[1]) - (b[2] - b[1]) \in {0 - 1, 0, 1}
        /\ Shards(ptotal, pbatch)[pbatch - 1][2] = ptotal

\* C8: with the cache disabled every read is absent and every write a no-op:
\* a batch call evaluates every item it was asked and returns normally, and
\* InvalidateCache returns true exactly when the cache is enabled.
C8_DisabledCacheTolerated ==
    /\ \A p \in Calls :
          (IsInv(p) /\ c[p].pc = "done") => (c[p].ret = "true" <=> cacheOn)
    /\ ~cacheOn =>
          /\ \A e \in Emails : cache[e] = Nil
          /\ \A p \in Calls :
                /\ IsBatch(p) => ~c[p].hit
                /\ (IsBatch(p) /\ c[p].pc = "done" /\ ValidBatchCfg)
                      => (c[p].ret = "map" /\ c[p].evaluated = Range(c[p].items))

\* C9: a batch call with nothing left to evaluate dispatches no worker, does
\* not fail, returns exactly the mapping it found cached (empty when none)
\* and has released the identity lock, whatever the configured shard count.
NothingLeft(p) ==
    /\ IsBatch(p)
    /\ c[p].pc \in {"wait", "storeGet", "storeSet", "unlock", "delete", "done"}
    /\ c[p].vals = <<>>

C9_NothingLeftReturnsCached ==
    \A p \in Calls :
        NothingLeft(p) =>
            /\ c[p].dispatched = 0
            /\ ~c[p].panicking
            /\ c[p].pc = "done" =>
                  (c[p].ret = "map" /\ c[p].retMap = c[p].seen /\ c[p].unlocked)

\* C10: once a batch call is past wg.Wait (write-through, unlock, return) none
\* of its workers is unfinished and every item a worker evaluated is merged.
C10_WorkersJoined ==
    \A p \in Calls :
        (IsBatch(p) /\ PastWait(p)) =>
            /\ c[p].workers = {}
            /\ c[p].wg = 0
            /\ c[p].panicking \/ c[p].evaluated \subseteq DOMAIN inner[c[p].result]

\* C10 witness: a call that dispatched two workers is at its write-through
\* with their decisions merged.
C10_Witness ==
    \E p \in Calls :
        /\ IsBatch(p) /\ c[p].pc = "storeSet" /\ c[p].dispatched >= 2
        /\ Cardinality(c[p].evaluated) >= 2
        /\ c[p].evaluated \subseteq DOMAIN inner[c[p].result]

VerifyFailed == enf.args # <<>> /\ ~enf.args[1].verifies
ClaimsFailed == enf.args # <<>> /\ ~enf.args[1].claimsOk

\* C11: Enforce with no argument, with a token that fails verification or
\* with claims that cannot be read returns false and never calls the policy
\* engine; every call of the engine carries the resolved, lower-cased
\* identity as its subject.
C11_DenyByDefault ==
    /\ (enf.pc = "done" /\ (enf.args = <<>> \/ VerifyFailed \/ ClaimsFailed))
          => (enf.ret = FALSE /\ enf.engine = <<>>)
    /\ \A i \in DOMAIN enf.engine :
          /\ enf.args # <<>> /\ ~VerifyFailed /\ ~ClaimsFailed
          /\ enf.pc = "done"
          /\ enf.engine[i][1] = ToLower(enf.engine[i][1])
          /\ enf.engine[i][1] \in {ToLower(e) : e \in TokEmails} \cup {"admin"}

\* C11 witness: a call with a token that does not verify has returned false.
C11_Witness ==
    /\ enf.pc = "done" /\ enf.args # <<>>
    /\ ~enf.args[1].verifies /\ enf.args[1].claimsOk
    /\ enf.ret = FALSE /\ enf.engine = <<>>

\* C12: MatchKeyByPart(path, "*") is true for every non-empty path, with any
\* number of segments and with or without empty segments.
C12_StarMatchesAll ==
    (mk.pc = "done" /\ mk.key2 = <<"*">> /\ mk.key1 # <<>>) => mk.ret = TRUE

\* C12 witness: "*" has matched a path with an empty segment.
C12_Witness ==
    /\ mk.pc = "done" /\ mk.key2 = <<"*">> /\ mk.ret = TRUE
    /\ \E i \in 1..(Len(mk.key1) - 1) : mk.key1[i] = "/" /\ mk.key1[i + 1] = "/"

\* the positions of "/" in s, the number of segments, and the k-th segment
SlashAt(s) == {i \in 1..Len(s) : s[i] = "/"}
SegCount(s) == Cardinality(SlashAt(s)) + 1
SegStart(s, k) ==
    IF k = 1 THEN 1
    ELSE 1 + CHOOSE i \in SlashAt(s) : Cardinality({n \in SlashAt(s) : n <= i}) = k - 1
SegEnd(s, k) ==
    IF k = SegCount(s) THEN Len(s)
    ELSE (CHOOSE i \in SlashAt(s) : Cardinality({n \in SlashAt(s) : n <= i}) = k) - 1
Seg(s, k) == SubSeq(s, SegStart(s, k), SegEnd(s, k))
HasStar(q) == \E i \in 1..Len(q) : q[i] = "*"
FirstStar(q) == Cardinality({i \in 1..Len(q) : \A n \in 1..i : q[n] # "*"})
SegPairOk(p, q) ==
    \/ ~HasStar(q) /\ p = q
    \/ HasStar(q) /\ Len(p) > FirstStar(q)
          /\ \A n \in 1..FirstStar(q) : p[n] = q[n]
    \/ HasStar(q) /\ Len(p) <= FirstStar(q)
          /\ Len(p) = FirstStar(q) /\ \A n \in 1..Len(p) : p[n] = q[n]
Matches(path, pattern) ==
    /\ SegCount(path) = SegCount(pattern)
    /\ \A k \in 1..SegCount(path) : Seg(path, k) # <<>> /\ Seg(pattern, k) # <<>>
    /\ \A k \in 1..SegCount(path) : SegPairOk(Seg(path, k), Seg(pattern, k))

\* C13: for a pattern other than "*", MatchKeyByPart(path, pattern) is true
\* exactly when path and pattern have the same number of segments, no segment
\* of either is empty, and every pair of segments (p, q) has p = q with no "*"
\* in q, or agrees with q up to the first "*" of q at index j when len(p) > j,
\* or p = q[:j] when len(p) <= j.
C13_MatchCharacterised ==
    (mk.pc = "done" /\ mk.key2 # <<"*">>) => (mk.ret <=> Matches(mk.key1, mk.key2))

\* C13 witness: a two-segment path has matched a pattern with a "*" segment.
C13_Witness ==
    /\ mk.pc = "done" /\ mk.ret = TRUE
    /\ mk.key1 = <<"a", "/", "b">> /\ mk.key2 = <<"a", "/", "*">>

\* a batch or InvalidateCache call that has been issued and has not returned
InProgress(p) == c[p].op \in {"batch", "inv"} /\ c[p].pc \notin {"idle", "done"}

\* C14: the lock table holds a handle for an identity only while some
\* EnforceByEmailInBatch or InvalidateCache call for that identity is pending
\* or active; with no call for an identity in progress the table has no entry
\* for it.
C14_NoStaleHandle ==
    \A e \in Emails :
        lock[e] # Nil => \E p \in Calls : InProgress(p) /\ getLockKey(c[p].emailId) = e

\* C14 witness: two calls for one identity have both returned and the table
\* has no entry for the identity.
C14_Witness ==
    \E p, q \in Calls :
        /\ p # q /\ c[p].emailId = c[q].emailId
        /\ c[p].op \in {"batch", "inv"} /\ c[q].op \in {"batch", "inv"}
        /\ c[p].pc = "done" /\ c[q].pc = "done"
        /\ lock[getLockKey(c[p].emailId)] = Nil

\* the identity arguments of p and q differ only in letter case
CaseVariants(p, q) ==
    /\ p # q /\ c[p].op \in {"batch", "inv"} /\ c[q].op \in {"batch", "inv"}
    /\ c[p].emailId # c[q].emailId
    /\ ToLower(c[p].emailId) = ToLower(c[q].emailId)

\* C15: calls whose identity arguments differ only in letter case use one
\* lock handle and one cache entry: they are never in their critical section
\* together, and InvalidateCache on one spelling leaves nothing cached under
\* the other.
C15_PartitionedByLowerCase ==
    \A p, q \in Calls :
        CaseVariants(p, q) =>
            /\ ~(InCritical(p) /\ InCritical(q))
            /\ (/\ cacheOn /\ IsBatch(p) /\ IsInv(q) /\ p \in c[q].after
                /\ c[q].pc = "done")
                   => cache[c[p].emailId] = Nil

\* the step is the touch of getCacheData (line 226) by call p
Touches(p) == c[p].pc = "cacheTouch" /\ c'[p].pc # "cacheTouch"

\* the step is a tick of the clock at which the entry of e expires
Expires(e) == Tick /\ cache[e] # Nil /\ cache'[e] = Nil

\* C16: a read that hits an identity's entry leaves the entry in the cache
\* with a full time-to-live, and an entry expires only when a full
\* time-to-live has passed since it was last read or written.
C16_SlidingExpiry ==
    [][/\ \A p \in Calls : Touches(p) =>
              /\ cache'[c[p].emailId] # Nil
              /\ ttl'[c[p].emailId] = TtlTicks
       /\ \A e \in Emails : Expires(e) => idle[e] + 1 >= TtlTicks]_vars

\* C16 witness: a read found an entry with less than a full time-to-live
\* left, and the entry is due a full time-to-live again.
C16_Witness ==
    \E p, q \in Calls :
        /\ IsBatch(p) /\ IsBatch(q) /\ p \in c[q].after
        /\ c[p].emailId = c[q].emailId /\ ~c[p].removed
        /\ c[q].pc = "dispatch" /\ c[q].hit
        /\ c[q].left >= 1 /\ c[q].left < TtlTicks
        /\ cache[c[q].emailId] # Nil /\ ttl[c[q].emailId] = TtlTicks

\* the shard count of a batch call has been fixed (the dispatch is over)
Dispatched(p) ==
    IsBatch(p) /\ c[p].pc \in {"wait", "storeGet", "storeSet", "unlock", "delete", "done"}

\* C17: with the configured maximum batch size missing, non-numeric, zero or
\* negative, a batch call uses the default shard count: with at least one
\* uncached item it dispatches at least one worker and does not fail on the
\* shard count.
C17_InvalidBatchSizeFallsBack ==
    \A p \in Calls :
        (Dispatched(p) /\ ~ValidBatchCfg /\ c[p].vals # <<>>)
            => /\ ~c[p].panicking
               /\ c[p].dispatched >= 1
               /\ c[p].dispatched = Min(EnforcerBatchDefaultSize, Len(c[p].vals))

\* the decisions the cache holds that were evaluated before the last flush
StaleCached(e) ==
    IF cache[e] = Nil THEN {}
    ELSE UNION {c[outer[cache[e]][k]].stale : k \in DOMAIN outer[cache[e]]}

\* C18: once InvalidateCompleteCache has returned, the cache holds no
\* decision that the policy engine evaluated before the flush, also when a
\* batch call was under way during the flush.
C18_NoPreFlushDecision ==
    (\E p \in Calls : c[p].op = "flush" /\ c[p].pc = "done")
        => \A e \in Emails : StaleCached(e) = {}

\* a batch call has returned a mapping
GaveMap(p) == IsBatch(p) /\ c[p].pc = "done" /\ c[p].ret = "map"

\* C19 as claimed: the mapping a batch call returns has no key outside the
\* items this call asked for.
C19_OnlyRequestedKeys ==
    \A p \in Calls : GaveMap(p) => DOMAIN c[p].retMap \subseteq Range(c[p].items)

\* the other batch calls issued for the identity, resource and action of p, or
\* for a resource and action with the same resource$$action text
KeyText(p) == c[p].resource \o "$$" \o c[p].action
SameKeyCalls(p) ==
    {q \in Calls \ {p} :
        IsBatch(q) /\ c[q].emailId = c[p].emailId /\ KeyText(q) = KeyText(p)}

\* C19 amended: every key of the mapping a batch call returns is an item asked
\* for by this call or by another batch call for the same identity argument
\* and the same resource$$action text.
C19_KeysRequestedUnderKey ==
    \A p \in Calls :
        GaveMap(p) =>
            DOMAIN c[p].retMap \subseteq
                Range(c[p].items) \cup UNION {Range(c[q].items) : q \in SameKeyCalls(p)}

\* C19 witness: a call has returned a key it did not ask for, which an
\* earlier call for the same identity, resource and action had asked for.
C19_Witness ==
    \E p, q \in Calls :
        /\ GaveMap(p) /\ GaveMap(q) /\ q \in c[p].after
        /\ c[p].emailId = c[q].emailId
        /\ c[p].resource = c[q].resource /\ c[p].action = c[q].action
        /\ \E i \in DOMAIN c[p].retMap :
              i \notin Range(c[p].items) /\ i \in Range(c[q].items)

\* the requests of every load of the model
AllRequests == Requests \cup HotRequests \cup KeyRequests

\* C20: every decision that the cache holds or that a batch call returns for
\* (identity, resource, action, item) is the policy engine's decision for
\* (lower-cased identity, resource, action, item), whatever the resource and
\* action strings.
C20_DecisionsMatchPolicy ==
    /\ \A p \in Calls :
          GaveMap(p) =>
              \A i \in DOMAIN c[p].retMap :
                  c[p].retMap[i] = Policy(ToLower(c[p].emailId), c[p].resource, c[p].action, i)
    /\ \A e \in Emails, r \in AllRequests :
          (cache[e] # Nil /\ getCacheKey(r[1], r[2]) \in DOMAIN outer[cache[e]]) =>
              LET m == inner[outer[cache[e]][getCacheKey(r[1], r[2])]]
              IN \A i \in DOMAIN m : m[i] = Policy(ToLower(e), r[1], r[2], i)

====
